---- MODULE Spec2Model ----
(***************************************************************************)
(* Model of the incremental LSIF bundle merge, patchData and its helpers   *)
(* (enterprise/cmd/precise-code-intel-worker/internal/worker/patch.go), of *)
(* the React hook useLocalStorage, of the component DropdownButton         *)
(* (client/web/src/enterprise/batches/DropdownButton.tsx) and of the hook  *)
(* useSearchOnboardingTour (client/web/src/search/input/                   *)
(* SearchOnboardingTour.ts).  Each has its own specification; the          *)
(* variables of the other three are left alone.                            *)
(*                                                                         *)
(* Identifiers (lsifstore.ID, a Go string) are natural numbers; the empty  *)
(* string "" is NoID.  A Go map is a TLA+ function; reading a missing key  *)
(* yields the zero value (Lookup).  A nil slice is the empty sequence.     *)
(***************************************************************************)
EXTENDS Integers, Sequences, FiniteSets, TLC

(* ------------------------------------------------------------------ *)
(* Bounds and identifier namespaces                                    *)
(* ------------------------------------------------------------------ *)

\* largest meta.NumResultChunks of a generated bundle
MaxShards == 2

Paths == {"a.go", "b.go"}

Unchanged == "unchanged"
Modified == "modified"
Deleted == "deleted"
Added == "added"
Statuses == {Unchanged, Modified, Deleted, Added}

\* the empty lsifstore.ID ""
NoID == 0

\* the error values patchData and unifyRangeIDs return
NilErr == "nil"
NewIDErr == "newIDError"
unequalUnmodifiedPathsErr == "unequalUnmodifiedPaths"

\* Identifiers of the base dump, of the patch dump, and those newID mints.  newID returns
\* a random UUID: the minted identifiers are new, here two disjoint series, one for ranges
\* and results (fresh) and one for documents (freshDoc).  A dump numbers its own vertices,
\* so the range IDs of the patch can be those of the base (offset 0), overlap them
\* (offset 1) or be disjoint from them (offset 30).
BaseNS == [rng |-> 0, res |-> 10, doc |-> 20, hover |-> 60, fresh |-> 100, freshDoc |-> 200]
RngOffsets == {0, 1, 30}
PatchNS(off) == [rng |-> off, res |-> 40, doc |-> 50, hover |-> 70]

(* ------------------------------------------------------------------ *)
(* Go maps                                                             *)
(* ------------------------------------------------------------------ *)

Lookup(f, k, zero) == IF k \in DOMAIN f THEN f[k] ELSE zero

Put(f, k, v) == [x \in (DOMAIN f) \cup {k} |-> IF x = k THEN v ELSE f[x]]

Del(f, k) == [x \in (DOMAIN f) \ {k} |-> f[x]]

EmptyMap == [x \in {} |-> NoID]

Perms(S) == {s \in [1..Cardinality(S) -> S] : \A i, j \in 1..Cardinality(S) : i # j => s[i] # s[j]}

\* the elements of a finite set of numbers in ascending order
RECURSIVE Ascending(_)
Ascending(S) ==
    IF S = {} THEN <<>>
    ELSE LET m == CHOOSE x \in S : \A y \in S : x <= y
         IN <<m>> \o Ascending(S \ {m})

ZeroRange == [startLine |-> 0, startCharacter |-> 0, endLine |-> 0, endCharacter |-> 0,
              definitionResultID |-> NoID, referenceResultID |-> NoID,
              hoverResultID |-> NoID, monikerIDs |-> {}]

ZeroDoc == [ranges |-> EmptyMap]

\* patch.Documents[path], the zero DocumentData when the path has none
DocOf(docs, path) == Lookup(docs, path, ZeroDoc)

\* docs[path].Ranges[id], the zero RangeData when absent
RangeOf(docs, path, id) == Lookup(DocOf(docs, path).ranges, id, ZeroRange)

(* ------------------------------------------------------------------ *)
(* lsifstore primitives                                                *)
(* ------------------------------------------------------------------ *)

\* lsifstore.CompareRanges: order by (startLine, startCharacter, endLine, endCharacter)
CompareRanges(a, b) ==
    IF a.startLine # b.startLine THEN (IF a.startLine < b.startLine THEN -1 ELSE 1)
    ELSE IF a.startCharacter # b.startCharacter THEN (IF a.startCharacter < b.startCharacter THEN -1 ELSE 1)
    ELSE IF a.endLine # b.endLine THEN (IF a.endLine < b.endLine THEN -1 ELSE 1)
    ELSE IF a.endCharacter # b.endCharacter THEN (IF a.endCharacter < b.endCharacter THEN -1 ELSE 1)
    ELSE 0

\* lsifstore.HashKey: a deterministic hash of the identifier modulo the shard count
HashKey(id, numResultChunks) == id % numResultChunks

\* every outcome sort.Slice can produce: the orderings of the keys that respect CompareRanges
sortedRangeIDs(ranges) ==
    {s \in Perms(DOMAIN ranges) :
        \A i, j \in 1..Len(s) : i < j => CompareRanges(ranges[s[i]], ranges[s[j]]) <= 0}

\* mutant: the chunk is not selected by the hash of resultID, the first chunk is taken
getDefRef_firstChunk(resultID, meta, resultChunks) ==
    [locs |-> Lookup(resultChunks[0].documentIDRangeIDs, resultID, <<>>), chunkID |-> 0]

\* getDefRef: the location list of resultID and (the index of) the chunk that holds it
getDefRef(resultID, meta, resultChunks) ==
    LET chunkID == HashKey(resultID, meta.numResultChunks)
        chunk == resultChunks[chunkID]
    IN [locs |-> Lookup(chunk.documentIDRangeIDs, resultID, <<>>), chunkID |-> chunkID]

\* chunk.DocumentIDRangeIDs[resultID] = locs, in the chunk with index chunkID
SetLocs(resultChunks, chunkID, resultID, locs) ==
    [resultChunks EXCEPT ![chunkID].documentIDRangeIDs = Put(@, resultID, locs)]

(* ------------------------------------------------------------------ *)
(* The bundles the merge is run on                                     *)
(* ------------------------------------------------------------------ *)

\* The indexed project: symbol S is defined in a.go and used in a.go and b.go,
\* symbol T is defined in b.go.  k is the position of the range in its file.
Occ == << [i |-> 1, path |-> "a.go", k |-> 0, sym |-> "S", isDef |-> TRUE],
          [i |-> 2, path |-> "a.go", k |-> 1, sym |-> "S", isDef |-> FALSE],
          [i |-> 3, path |-> "b.go", k |-> 0, sym |-> "S", isDef |-> FALSE],
          [i |-> 4, path |-> "b.go", k |-> 1, sym |-> "T", isDef |-> TRUE] >>

\* The same project with S declared a second time, in b.go: the definition result of S
\* has two locations.
OccTwoDefs == << [i |-> 1, path |-> "a.go", k |-> 0, sym |-> "S", isDef |-> TRUE],
                 [i |-> 2, path |-> "a.go", k |-> 1, sym |-> "S", isDef |-> FALSE],
                 [i |-> 3, path |-> "b.go", k |-> 0, sym |-> "S", isDef |-> TRUE],
                 [i |-> 4, path |-> "b.go", k |-> 1, sym |-> "T", isDef |-> TRUE] >>

\* The same project with a range in b.go that stands for no symbol (a literal with hover
\* text): it has neither a definition result nor a reference result.
OccNoSymbol == << [i |-> 1, path |-> "a.go", k |-> 0, sym |-> "S", isDef |-> TRUE],
                  [i |-> 2, path |-> "a.go", k |-> 1, sym |-> "S", isDef |-> FALSE],
                  [i |-> 3, path |-> "b.go", k |-> 0, sym |-> "S", isDef |-> FALSE],
                  [i |-> 4, path |-> "b.go", k |-> 1, sym |-> "", isDef |-> FALSE] >>

\* The same project with S declared twice in a.go (as merged declarations are): the
\* definition result of S has two locations in one document.
OccTwoDefsOneFile == << [i |-> 1, path |-> "a.go", k |-> 0, sym |-> "S", isDef |-> TRUE],
                        [i |-> 2, path |-> "a.go", k |-> 1, sym |-> "S", isDef |-> TRUE],
                        [i |-> 3, path |-> "b.go", k |-> 0, sym |-> "S", isDef |-> FALSE],
                        [i |-> 4, path |-> "b.go", k |-> 1, sym |-> "T", isDef |-> TRUE] >>

Projects == {Occ, OccTwoDefs, OccNoSymbol, OccTwoDefsOneFile}

Syms == {"S", "T"}

SymNo(sym) == IF sym = "S" THEN 1 ELSE 4

\* how a file's content appears in a dump: as it is, with every range moved, or one range short
Variants == {"same", "moved", "short"}

\* the dump of the files in present of a project, in the identifier namespace ns, over n
\* result chunks
EncodeBundle(project, present, variant, ns, n) ==
    LET occs == SelectSeq(project, LAMBDA o : o.path \in present /\ ~(variant[o.path] = "short" /\ o.k = 1))
        has(sym) == \E x \in 1..Len(occs) : occs[x].sym = sym
        hasDef(sym) == \E x \in 1..Len(occs) : occs[x].sym = sym /\ occs[x].isDef
        defID(sym) == ns.res + SymNo(sym)
        refID(sym) == ns.res + SymNo(sym) + 1
        rngID(o) == ns.rng + o.i
        docID(path) == ns.doc + (IF path = "a.go" THEN 1 ELSE 2)
        rangeData(o) ==
            [startLine |-> o.k, startCharacter |-> IF variant[o.path] = "moved" THEN 1 ELSE 0,
             endLine |-> o.k, endCharacter |-> 5,
             definitionResultID |-> IF o.sym \in Syms /\ hasDef(o.sym) THEN defID(o.sym) ELSE NoID,
             referenceResultID |-> IF o.sym \in Syms THEN refID(o.sym) ELSE NoID,
             hoverResultID |-> ns.hover + o.i, monikerIDs |-> {ns.hover + o.i}]
        loc(o) == [documentID |-> docID(o.path), rangeID |-> rngID(o)]
        locSeq(os) == [x \in 1..Len(os) |-> loc(os[x])]
        defLocs(sym) == locSeq(SelectSeq(occs, LAMBDA o : o.sym = sym /\ o.isDef))
        refLocs(sym) == locSeq(SelectSeq(occs, LAMBDA o : o.sym = sym))
        keys == {defID(sym) : sym \in {s \in Syms : hasDef(s)}} \cup {refID(sym) : sym \in {s \in Syms : has(s)}}
        locsOf(id) == IF \E sym \in Syms : id = defID(sym)
                      THEN defLocs(CHOOSE sym \in Syms : id = defID(sym))
                      ELSE refLocs(CHOOSE sym \in Syms : id = refID(sym))
        chunkKeys(c) == {id \in keys : HashKey(id, n) = c}
        chunkDocs(c) == {locsOf(id)[x].documentID : <<id, x>> \in {<<id, x>> \in chunkKeys(c) \X (1..Len(Occ)) : x <= Len(locsOf(id))}}
        occSet == {occs[x] : x \in 1..Len(occs)}
    IN [meta |-> [numResultChunks |-> n],
        documents |-> [p \in present |->
                        [ranges |-> [id \in {rngID(o) : o \in {oo \in occSet : oo.path = p}} |->
                                        rangeData(CHOOSE o \in occSet : rngID(o) = id)]]],
        resultChunks |-> [c \in 0..(n - 1) |->
                        [documentPaths |-> [d \in chunkDocs(c) |-> CHOOSE p \in Paths : docID(p) = d],
                         documentIDRangeIDs |-> [id \in chunkKeys(c) |-> locsOf(id)]]]]

(* ------------------------------------------------------------------ *)
(* State                                                               *)
(* ------------------------------------------------------------------ *)

VARIABLES
    base,              \* the base bundle, mutated in place
    patch,             \* the patch bundle, mutated in place
    fileStatus,        \* path -> gitserver.Status
    reindexedFiles,    \* the set of reindexed paths
    pc,                \* the position of patchData
    err,               \* the error patchData returns
    unifyErr,          \* the error unifyRangeIDs returned at line 45
    nextID,            \* the next identifier newID mints for a range or a result
    nextDocID,         \* the next identifier newID mints for a document
    visited,           \* unifyRangeIDs: the iterations of the loop of line 240 made, in order
    updatedRngIDs,     \* unifyRangeIDs: updatedRngIDs
    resultsToUpdate,   \* unifyRangeIDs: resultsToUpdate
    defResultsByPath,  \* patchData: defResultsByPath
    merged,            \* patchData: the candidate definitions already merged, in order, with their defID and
                       \* refID and the entries appended for each of their patch references
    base0,             \* the base bundle patchData was called with
    patch0,            \* the patch bundle patchData was called with
    newIDFailed,       \* whether some newID call has failed
    loopVarPerIteration \* whether the build gives each iteration of a range loop its own variable

\* useLocalStorage
VARIABLES
    localStorage,      \* window.localStorage: key -> the text stored under it
    initialValue,      \* the argument initialValue
    hookState,         \* the state cell of useState
    storedValue,       \* storedValue of the last render, which the closure setValue reads
    setValueCalls,     \* the number of setValue calls since the component was mounted
    uncaught           \* whether the last setValue call ended with an exception

\* DropdownButton
VARIABLES
    actions,           \* the available actions (the prop, filtered by isAvailable)
    defaultAction,     \* the prop defaultAction
    isDisabled,        \* the state isDisabled
    isOpen,            \* the state isOpen
    selected,          \* the state selected
    renderedElement,   \* the state renderedElement
    invocations        \* the onTrigger calls made, in order, and how far each has got

\* useSearchOnboardingTour
VARIABLES
    showOnboardingTour, \* the option showOnboardingTour
    daysActiveCount,    \* daysActiveCount of marketing/util
    queryState,         \* queryState.query, the query in the input
    tourStorage,        \* window.localStorage: key -> the text stored under it
    hasCancelledTour,   \* the state of useLocalStorage(HAS_CANCELLED_TOUR_KEY, false)
    currentStep,        \* the state of useCurrentStep; "" is undefined
    suggestions,        \* whether onSuggestionsInitialized has been given the handle
    activeTour,         \* whether Shepherd.activeTour is the tour (tour.isActive())
    shownStep,          \* the id of the step the tour displays; "" when it displays none
    cancelEmitted,      \* whether the tour has emitted 'cancel'
    setItemThrew,       \* whether a localStorage.setItem call of the hook has thrown
    lastShow,           \* the last tour.show call made by the hook: the step, and the
                        \* currentStep and query it was made with
    lastEffect          \* the last run of the effect of lines 402-413 on an active tour

patchVars == <<base, patch, fileStatus, reindexedFiles, pc, err, unifyErr, nextID, nextDocID, visited,
               updatedRngIDs, resultsToUpdate, defResultsByPath, merged, base0, patch0, newIDFailed,
               loopVarPerIteration>>

hookVars == <<localStorage, initialValue, hookState, storedValue, setValueCalls, uncaught>>

buttonVars == <<actions, defaultAction, isDisabled, isOpen, selected, renderedElement, invocations>>

tourVars == <<showOnboardingTour, daysActiveCount, queryState, tourStorage, hasCancelledTour, currentStep,
              suggestions, activeTour, shownStep, cancelEmitted, setItemThrew, lastShow, lastEffect>>

vars == <<patchVars, hookVars, buttonVars, tourVars>>

\* JavaScript's undefined
Undefined == [type |-> "undefined", repr |-> "undefined"]

\* no component uses the hook
HookUnused ==
    /\ localStorage = [k \in {} |-> ""]
    /\ initialValue = Undefined
    /\ hookState = Undefined
    /\ storedValue = Undefined
    /\ setValueCalls = 0
    /\ uncaught = FALSE

\* no DropdownButton is rendered
ButtonUnused ==
    /\ actions = <<>>
    /\ defaultAction = <<>>
    /\ isDisabled = FALSE
    /\ isOpen = FALSE
    /\ selected = <<>>
    /\ renderedElement = <<>>
    /\ invocations = <<>>

\* no component uses useSearchOnboardingTour
TourUnused ==
    /\ showOnboardingTour = FALSE
    /\ daysActiveCount = 0
    /\ queryState = ""
    /\ tourStorage = [k \in {} |-> ""]
    /\ hasCancelledTour = FALSE
    /\ currentStep = ""
    /\ suggestions = FALSE
    /\ activeTour = FALSE
    /\ shownStep = ""
    /\ cancelEmitted = FALSE
    /\ setItemThrew = FALSE
    /\ lastShow = [step |-> "", currentStep |-> "", query |-> ""]
    /\ lastEffect = [branch |-> "", currentStep |-> "", query |-> "", show |-> ""]

\* the mutable state of one call of patchData, as one record
St == [base |-> base, patch |-> patch, pc |-> pc, err |-> err, unifyErr |-> unifyErr,
       nextID |-> nextID, nextDocID |-> nextDocID, visited |-> visited,
       updatedRngIDs |-> updatedRngIDs, resultsToUpdate |-> resultsToUpdate,
       defResultsByPath |-> defResultsByPath, merged |-> merged, newIDFailed |-> newIDFailed]

\* the arguments of the call that are only read
In == [fileStatus |-> fileStatus, reindexedFiles |-> reindexedFiles,
       loopVarPerIteration |-> loopVarPerIteration]

Become(s) ==
    /\ base' = s.base
    /\ patch' = s.patch
    /\ pc' = s.pc
    /\ err' = s.err
    /\ unifyErr' = s.unifyErr
    /\ nextID' = s.nextID
    /\ nextDocID' = s.nextDocID
    /\ visited' = s.visited
    /\ updatedRngIDs' = s.updatedRngIDs
    /\ resultsToUpdate' = s.resultsToUpdate
    /\ defResultsByPath' = s.defResultsByPath
    /\ merged' = s.merged
    /\ newIDFailed' = s.newIDFailed
    /\ UNCHANGED <<fileStatus, reindexedFiles, base0, patch0, loopVarPerIteration, hookVars, buttonVars,
                    tourVars>>

\* the state patchData starts in
StartOf(b, p) ==
    [base |-> b, patch |-> p, pc |-> "removeRefs", err |-> NilErr, unifyErr |-> NilErr,
     nextID |-> BaseNS.fresh, nextDocID |-> BaseNS.freshDoc, visited |-> <<>>,
     updatedRngIDs |-> EmptyMap, resultsToUpdate |-> {},
     defResultsByPath |-> [x \in {} |-> EmptyMap], merged |-> <<>>, newIDFailed |-> FALSE]

(* ------------------------------------------------------------------ *)
(* patchData, lines 19-45: the path sets                               *)
(* ------------------------------------------------------------------ *)

\* mutant: the status test of line 26 is missing
modifiedOrDeletedPaths_allPaths(status) == DOMAIN status

modifiedOrDeletedPaths(status) == {path \in DOMAIN status : status[path] \in {Modified, Deleted}}

pathsToCopy(in) == in.reindexedFiles \cup {path \in DOMAIN in.fileStatus : in.fileStatus[path] = Added}

(* ------------------------------------------------------------------ *)
(* removeRefsIn                                                        *)
(* ------------------------------------------------------------------ *)

\* mutant: the test of line 224 is missing, every location is kept
FilterRefs_keepAll(refs, documentPaths, paths) == refs

\* the locations of refs that do not lie in one of paths
FilterRefs(refs, documentPaths, paths) ==
    SelectSeq(refs, LAMBDA ref : Lookup(documentPaths, ref.documentID, "") \notin paths)

\* mutant: the write of line 228 is missing
removeRefsIn_noWrite(paths, meta, docs, chunks) == chunks

\* Every reference result of a range of a document in paths is filtered once; the
\* writes go to distinct keys, so the iteration order of the two maps does not matter.
removeRefsIn(paths, meta, docs, chunks) ==
    LET refIDs == {DocOf(docs, path).ranges[id].referenceResultID :
                     <<path, id>> \in {<<pa, i>> \in paths \X (UNION {DOMAIN DocOf(docs, pa).ranges : pa \in paths}) :
                                          i \in DOMAIN DocOf(docs, pa).ranges}}
    IN [c \in DOMAIN chunks |->
          [chunks[c] EXCEPT !.documentIDRangeIDs =
              [id \in (DOMAIN @) \cup {r \in refIDs : HashKey(r, meta.numResultChunks) = c} |->
                  IF id \in refIDs
                  THEN FilterRefs(Lookup(@, id, <<>>), chunks[c].documentPaths, paths)
                  ELSE @[id]]]]

RemoveRefsStep(s, in) ==
    [s EXCEPT !.base.resultChunks =
                  removeRefsIn(modifiedOrDeletedPaths(in.fileStatus), s.base.meta, s.base.documents, @),
              !.pc = "unify"]

(* ------------------------------------------------------------------ *)
(* unifyRangeIDs                                                       *)
(* ------------------------------------------------------------------ *)

\* lines 272-278: relabel the ranges of one document, in the order the map is iterated
RECURSIVE RelabelLoop(_, _, _, _, _)
RelabelLoop(ranges, results, pathUpdatedRngIDs, order, i) ==
    IF i > Len(order) THEN [ranges |-> ranges, results |-> results]
    ELSE LET oldID == order[i]
             newRngID == pathUpdatedRngIDs[oldID]
             rng == Lookup(ranges, oldID, ZeroRange)
         IN RelabelLoop(Del(Put(ranges, newRngID, rng), oldID),
                        results \cup {rng.referenceResultID, rng.definitionResultID},
                        pathUpdatedRngIDs, order, i + 1)

\* mutant: the comparison of line 256 is missing, only the lengths are compared
UnchangedMapping_lengthOnly(updateToDoc, toUpdateDoc) ==
    LET updateToRngIDs == CHOOSE q \in sortedRangeIDs(updateToDoc.ranges) : TRUE
        toUpdateRng == CHOOSE q \in sortedRangeIDs(toUpdateDoc.ranges) : TRUE
    IN IF Len(toUpdateRng) # Len(updateToRngIDs)
       THEN [err |-> unequalUnmodifiedPathsErr, mapping |-> EmptyMap]
       ELSE [err |-> NilErr,
             mapping |-> [id \in DOMAIN toUpdateDoc.ranges |->
                            updateToRngIDs[CHOOSE idx \in 1..Len(toUpdateRng) : toUpdateRng[idx] = id]]]

\* lines 245-261: the mapping of an unchanged document, or the error (the ranges of one
\* document have distinct positions, so sortedRangeIDs has one outcome)
UnchangedMapping(updateToDoc, toUpdateDoc) ==
    LET updateToRngIDs == CHOOSE q \in sortedRangeIDs(updateToDoc.ranges) : TRUE
        toUpdateRng == CHOOSE q \in sortedRangeIDs(toUpdateDoc.ranges) : TRUE
    IN IF Len(toUpdateRng) # Len(updateToRngIDs)
       THEN [err |-> unequalUnmodifiedPathsErr, mapping |-> EmptyMap]
       ELSE IF \E idx \in 1..Len(updateToRngIDs) :
                  CompareRanges(updateToDoc.ranges[updateToRngIDs[idx]], toUpdateDoc.ranges[toUpdateRng[idx]]) # 0
       THEN [err |-> unequalUnmodifiedPathsErr, mapping |-> EmptyMap]
       ELSE [err |-> NilErr,
             mapping |-> [id \in DOMAIN toUpdateDoc.ranges |->
                            updateToRngIDs[CHOOSE idx \in 1..Len(toUpdateRng) : toUpdateRng[idx] = id]]]

VisitedPaths(s) == {s.visited[x].path : x \in 1..Len(s.visited)}

\* the choices one iteration of the loop of line 240 has: the document, the order in which
\* pathUpdatedRngIDs is iterated, and whether newID fails
UnifyDocChoices(s, in) ==
    UNION {IF in.fileStatus[path] = Unchanged
           THEN {[path |-> path, order |-> order, fail |-> FALSE] :
                   order \in Perms(DOMAIN UnchangedMapping(DocOf(s.base.documents, path), s.patch.documents[path]).mapping)}
           ELSE {[path |-> path, order |-> <<>>, fail |-> fail] :
                   fail \in {f \in BOOLEAN : f => DOMAIN s.patch.documents[path].ranges # {}}}
           : path \in (DOMAIN s.patch.documents) \ VisitedPaths(s)}

\* one iteration of the loop of line 240, lines 241-278 (the identifiers minted at line 264
\* are interchangeable; they are given out in ascending order of rngID)
UnifyDocStep(s, in, c) ==
    LET toUpdateDoc == s.patch.documents[c.path]
    IN IF in.fileStatus[c.path] = Unchanged
       THEN LET m == UnchangedMapping(DocOf(s.base.documents, c.path), toUpdateDoc)
                r == RelabelLoop(toUpdateDoc.ranges, s.resultsToUpdate, m.mapping, c.order, 1)
            IN IF m.err # NilErr
               THEN [s EXCEPT !.unifyErr = m.err, !.visited = Append(@, c), !.pc = "collect"]
               ELSE [s EXCEPT !.patch.documents[c.path].ranges = r.ranges,
                              !.resultsToUpdate = r.results,
                              !.visited = Append(@, c)]
       ELSE IF c.fail
       THEN [s EXCEPT !.unifyErr = NewIDErr, !.newIDFailed = TRUE, !.visited = Append(@, c), !.pc = "collect"]
       ELSE LET ids == Ascending(DOMAIN toUpdateDoc.ranges)
            IN [s EXCEPT !.updatedRngIDs =
                              [id \in (DOMAIN @) \cup DOMAIN toUpdateDoc.ranges |->
                                  IF id \in DOMAIN toUpdateDoc.ranges
                                  THEN s.nextID + (CHOOSE x \in 1..Len(ids) : ids[x] = id) - 1
                                  ELSE @[id]],
                           !.nextID = @ + Len(ids),
                           !.visited = Append(@, c)]

\* lines 283-297: a location list with the range identifiers of updatedRngIDs substituted
UpdatedLocs(results, updated) ==
    [x \in 1..Len(results) |->
        [rangeID |-> Lookup(updated, results[x].rangeID, results[x].rangeID),
         documentID |-> results[x].documentID]]

\* lines 281-300: rewrite the location lists of resultsToUpdate; the writes go to distinct keys
UnifyResultsStep(s, in) ==
    LET meta == s.patch.meta
        chunks == s.patch.resultChunks
    IN [s EXCEPT !.patch.resultChunks =
                    [c \in DOMAIN chunks |->
                        [chunks[c] EXCEPT !.documentIDRangeIDs =
                            [id \in (DOMAIN @) \cup {r \in s.resultsToUpdate : HashKey(r, meta.numResultChunks) = c} |->
                                IF id \in s.resultsToUpdate
                                THEN UpdatedLocs(Lookup(@, id, <<>>), s.updatedRngIDs)
                                ELSE @[id]]]],
                 !.pc = "collect"]

(* ------------------------------------------------------------------ *)
(* patchData, lines 48-70: the candidate definitions                   *)
(* ------------------------------------------------------------------ *)

\* the (defPath, rangeID) pairs the loops of lines 50-70 reach
DefLocsReached(s, in) ==
    UNION {LET rng == DocOf(s.patch.documents, path).ranges[id]
               dr == getDefRef(rng.definitionResultID, s.patch.meta, s.patch.resultChunks)
               defChunk == s.patch.resultChunks[dr.chunkID]
           IN IF rng.definitionResultID = NoID THEN {}
              ELSE {<<Lookup(defChunk.documentPaths, dr.locs[x].documentID, ""), dr.locs[x].rangeID>> :
                       x \in 1..Len(dr.locs)}
           : <<path, id>> \in {<<pa, i>> \in pathsToCopy(in) \X
                                   (UNION {DOMAIN DocOf(s.patch.documents, pa).ranges : pa \in pathsToCopy(in)}) :
                                 i \in DOMAIN DocOf(s.patch.documents, pa).ranges}}

\* The value stored for (defPath, rangeID) is patch.Documents[defPath].Ranges[rangeID] whoever
\* reaches it first, and the patch is not written in these loops: the order does not matter.
CollectStep(s, in) ==
    LET reached == DefLocsReached(s, in)
        byPath == [defPath \in {l[1] : l \in reached} |->
                     [id \in {l[2] : l \in {ll \in reached : ll[1] = defPath}} |->
                        RangeOf(s.patch.documents, defPath, id)]]
    IN [s EXCEPT !.defResultsByPath = byPath,
                 !.pc = IF DOMAIN byPath = {} THEN "apply" ELSE "merge"]

(* ------------------------------------------------------------------ *)
(* patchData, lines 73-194: the merge of one candidate definition      *)
(* ------------------------------------------------------------------ *)

\* the orders in which the loops of lines 112 and 116 are taken to iterate documentPaths
IterationOrders == {"ascending", "descending"}

\* whether some path has several document IDs in documentPaths
HasSeveralIDs(documentPaths) ==
    \E d, e \in DOMAIN documentPaths : d # e /\ documentPaths[d] = documentPaths[e]

\* lines 111-118: path -> document ID of a chunk; when a path has several, the one the
\* iteration of the map yields last
DocumentIDsByPath(documentPaths, order) ==
    [path \in {documentPaths[id] : id \in DOMAIN documentPaths} |->
        CHOOSE id \in DOMAIN documentPaths :
            /\ documentPaths[id] = path
            /\ \A other \in DOMAIN documentPaths :
                  documentPaths[other] = path =>
                      IF order = "ascending" THEN other <= id ELSE id <= other]

\* lines 144-150: patchDef points at the loop variable tmpDef and the loop does not stop at
\* a match.  When the loop has one variable for all its iterations (Go before 1.22) tmpDef
\* holds the last element of patchDefs once the loop has ended; when each iteration has
\* its own variable, patchDef points at the last element that matched.
PatchDefOf(patchDefs, patchDefPaths, patchPath, rangeID, perIteration) ==
    LET matches == {x \in 1..Len(patchDefs) :
                      /\ Lookup(patchDefPaths, patchDefs[x].documentID, "") = patchPath
                      /\ patchDefs[x].rangeID = rangeID}
    IN IF matches = {} THEN <<>>
       ELSE IF perIteration THEN <<patchDefs[CHOOSE x \in matches : \A y \in matches : y <= x]>>
       ELSE <<patchDefs[Len(patchDefs)]>>

\* lines 125-141 for one patch reference: it is added to baseRefs, and a.log gets the
\* record of this reference
AddRef(a, k, in, patchRef, patchPath) ==
    LET addRef == Lookup(in.fileStatus, patchPath, "") # Unchanged
        refExists == k.path \in DOMAIN a.baseRefDocumentIDs
        refMint == addRef /\ ~refExists
        baseRefDocumentID == IF refExists THEN a.baseRefDocumentIDs[k.path] ELSE a.nextDocID
        added == [documentID |-> baseRefDocumentID, rangeID |-> patchRef.rangeID]
        entry == [patchPath |-> patchPath, rangeID |-> patchRef.rangeID, baseDefsEmpty |-> FALSE,
                  refAdded |-> IF addRef THEN <<added>> ELSE <<>>, defAdded |-> <<>>]
    IN IF ~addRef THEN [a EXCEPT !.log = Append(@, entry)]
       ELSE IF refMint /\ a.calls + 1 = k.failAt THEN [a EXCEPT !.err = NewIDErr]
       ELSE [a EXCEPT
               !.calls = IF refMint THEN @ + 1 ELSE @,
               !.nextDocID = IF refMint THEN @ + 1 ELSE @,
               !.baseRefDocumentIDs = Put(@, k.path, baseRefDocumentID),
               !.base.resultChunks[k.baseRefChunk].documentPaths = Put(@, baseRefDocumentID, k.path),
               !.baseRefs = Append(@, added),
               !.log = Append(@, entry)]

\* lines 143-167 for one patch reference: its patch definition is added to baseDefs
AddDef(a, k, in, patchRef, patchPath) ==
    LET baseDefsEmpty == Len(a.baseDefs) = 0
        patchDef == IF baseDefsEmpty
                    THEN PatchDefOf(k.patchDefs, k.patchDefPaths, patchPath, patchRef.rangeID,
                                    in.loopVarPerIteration)
                    ELSE <<>>
        defExists == k.path \in DOMAIN a.baseDefDocumentIDs
        defMint == patchDef # <<>> /\ ~defExists
        baseDefDocumentID == IF defExists THEN a.baseDefDocumentIDs[k.path] ELSE a.nextDocID
        added == [documentID |-> baseDefDocumentID, rangeID |-> patchDef[1].rangeID]
    IN IF a.err # NilErr THEN a
       ELSE IF patchDef = <<>> THEN [a EXCEPT !.log[Len(a.log)].baseDefsEmpty = baseDefsEmpty]
       ELSE IF defMint /\ a.calls + 1 = k.failAt THEN [a EXCEPT !.err = NewIDErr]
       ELSE [a EXCEPT
               !.calls = IF defMint THEN @ + 1 ELSE @,
               !.nextDocID = IF defMint THEN @ + 1 ELSE @,
               !.baseDefDocumentIDs = Put(@, k.path, baseDefDocumentID),
               !.base.resultChunks[k.baseDefChunk].documentPaths = Put(@, baseDefDocumentID, k.path),
               !.baseDefs = Append(@, added),
               !.log[Len(a.log)] = [@ EXCEPT !.baseDefsEmpty = TRUE, !.defAdded = <<added>>]]

\* lines 169-184 for one patch reference: the range of a document to copy gets defID, refID
RewriteRange(a, k, in, patchRef, patchPath) ==
    IF a.err # NilErr \/ patchPath \notin pathsToCopy(in) THEN a
    ELSE [a EXCEPT !.patch.documents[patchPath].ranges =
                      Put(@, patchRef.rangeID,
                          [RangeOf(a.patch.documents, patchPath, patchRef.rangeID) EXCEPT
                             !.definitionResultID = k.defID, !.referenceResultID = k.refID])]

\* lines 119-185, the iterations from the i-th patch reference on.  a holds what the loop
\* writes: the bundles, baseRefs, baseDefs, the two document-ID maps, and the newID calls
\* made (calls) in this candidate; the call numbered failAt fails.  a.log records, for every
\* patch reference processed, the entries lines 139 and 165 appended for it.
RECURSIVE MergeRefsLoop(_, _, _, _)
MergeRefsLoop(a, k, in, i) ==
    IF i > Len(k.patchRefs) \/ a.err # NilErr THEN a
    ELSE LET patchRef == k.patchRefs[i]
             patchPath == Lookup(k.patchRefPaths, patchRef.documentID, "")
         IN MergeRefsLoop(RewriteRange(AddDef(AddRef(a, k, in, patchRef, patchPath),
                                              k, in, patchRef, patchPath),
                                       k, in, patchRef, patchPath),
                          k, in, i + 1)

\* lines 78-185 for the candidate c.defRngID of c.path; the newID call numbered c.failAt fails
MergeCandidateLoop(s, in, c) ==
    LET path == c.path
        def == s.defResultsByPath[path][c.defRngID]
        unchanged == Lookup(in.fileStatus, path, "") = Unchanged
        baseRng == RangeOf(s.base.documents, path, c.defRngID)
        defID == IF unchanged THEN baseRng.definitionResultID ELSE s.nextID
        refID == IF unchanged THEN baseRng.referenceResultID ELSE s.nextID + 1
        calls == IF unchanged THEN 0 ELSE 2
        patchRefs == getDefRef(def.referenceResultID, s.patch.meta, s.patch.resultChunks)
        patchDefs == getDefRef(def.definitionResultID, s.patch.meta, s.patch.resultChunks)
        baseRefs == getDefRef(refID, s.base.meta, s.base.resultChunks)
        baseDefs == getDefRef(defID, s.base.meta, s.base.resultChunks)
        k == [path |-> path, defID |-> defID, refID |-> refID, failAt |-> c.failAt,
              patchRefs |-> patchRefs.locs,
              patchRefPaths |-> s.patch.resultChunks[patchRefs.chunkID].documentPaths,
              patchDefs |-> patchDefs.locs,
              patchDefPaths |-> s.patch.resultChunks[patchDefs.chunkID].documentPaths,
              baseRefChunk |-> baseRefs.chunkID, baseDefChunk |-> baseDefs.chunkID]
        a0 == [base |-> s.base, patch |-> s.patch, calls |-> calls, log |-> <<>>,
               err |-> IF ~unchanged /\ c.failAt \in {1, 2} THEN NewIDErr ELSE NilErr,
               nextDocID |-> s.nextDocID, baseRefs |-> baseRefs.locs, baseDefs |-> baseDefs.locs,
               baseRefDocumentIDs |-> DocumentIDsByPath(s.base.resultChunks[baseRefs.chunkID].documentPaths, c.order),
               baseDefDocumentIDs |-> DocumentIDsByPath(s.base.resultChunks[baseDefs.chunkID].documentPaths, c.order)]
    IN [a |-> MergeRefsLoop(a0, k, in, 1), k |-> k, fresh |-> calls]

\* lines 78-193: the loop, then the two lists are written back (lines 187-188)
MergeCandidateStep(s, in, c) ==
    LET r == MergeCandidateLoop(s, in, c)
        a == r.a
        written == SetLocs(SetLocs(a.base.resultChunks, r.k.baseRefChunk, r.k.refID, a.baseRefs),
                           r.k.baseDefChunk, r.k.defID, a.baseDefs)
        nowMerged == Append(s.merged, [path |-> c.path, defRngID |-> c.defRngID, defID |-> r.k.defID, refID |-> r.k.refID,
                                       order |-> c.order, log |-> a.log])
    IN IF a.err # NilErr
       THEN [s EXCEPT !.err = a.err, !.newIDFailed = TRUE, !.pc = "done",
                      !.base = a.base, !.patch = a.patch]
       ELSE [s EXCEPT !.base.resultChunks = written, !.patch = a.patch,
                      !.nextID = @ + r.fresh, !.nextDocID = a.nextDocID,
                      !.merged = nowMerged,
                      !.pc = IF \A p \in DOMAIN s.defResultsByPath :
                                  \A id \in DOMAIN s.defResultsByPath[p] :
                                     \E x \in 1..Len(nowMerged) :
                                        nowMerged[x].path = p /\ nowMerged[x].defRngID = id
                             THEN "apply" ELSE "merge"]

\* the candidates the loops of lines 73 and 77 can take next: those of the path being
\* iterated while it has some left, else those of any other path; within a path in the
\* order of sortedRangeIDs
NextCandidates(s) ==
    LET done(p, id) == \E x \in 1..Len(s.merged) : s.merged[x].path = p /\ s.merged[x].defRngID = id
        left(p) == {id \in DOMAIN s.defResultsByPath[p] : ~done(p, id)}
        cur == IF s.merged = <<>> THEN {} ELSE {s.merged[Len(s.merged)].path}
        open == {p \in DOMAIN s.defResultsByPath : left(p) # {}}
        from == IF cur \cap open # {} THEN cur ELSE {p \in open : left(p) = DOMAIN s.defResultsByPath[p]}
    IN UNION {{[path |-> p, defRngID |-> id] :
                 id \in {i \in left(p) : \A j \in left(p) :
                           CompareRanges(s.defResultsByPath[p][i], s.defResultsByPath[p][j]) <= 0}}
              : p \in from}

\* the choices of one iteration: the candidate, the order in which the documentPaths maps
\* are iterated (it matters when a path has several document IDs), and which newID call
\* fails (0: none)
MergeChoices(s, in) ==
    LET orders == IF \E ch \in DOMAIN s.base.resultChunks : HasSeveralIDs(s.base.resultChunks[ch].documentPaths)
                  THEN IterationOrders ELSE {"ascending"}
    IN UNION {{[path |-> c.path, defRngID |-> c.defRngID, order |-> o, failAt |-> f] :
                 f \in 0..MergeCandidateLoop(s, in, [path |-> c.path, defRngID |-> c.defRngID,
                                                       order |-> o, failAt |-> 0]).a.calls}
              : <<c, o>> \in NextCandidates(s) \X orders}

(* ------------------------------------------------------------------ *)
(* patchData, lines 196-207: the apply phase                           *)
(* ------------------------------------------------------------------ *)

\* mutant: the loop of lines 196-201 is missing, no document is deleted
ApplyStep_noDelete(s, in) ==
    [s EXCEPT !.base.documents =
                    [path \in (DOMAIN s.base.documents) \cup pathsToCopy(in) |->
                        IF path \in pathsToCopy(in) THEN DocOf(s.patch.documents, path)
                        ELSE s.base.documents[path]],
              !.pc = "done"]

ApplyStep(s, in) ==
    LET kept == {path \in DOMAIN s.base.documents : in.fileStatus[path] # Deleted}
    IN [s EXCEPT !.base.documents =
                    [path \in kept \cup pathsToCopy(in) |->
                        IF path \in pathsToCopy(in) THEN DocOf(s.patch.documents, path)
                        ELSE s.base.documents[path]],
                 !.pc = "done"]

(* ------------------------------------------------------------------ *)
(* The calls of patchData                                              *)
(* ------------------------------------------------------------------ *)

Starts(s) ==
    /\ base = s.base
    /\ patch = s.patch
    /\ pc = s.pc
    /\ err = s.err
    /\ unifyErr = s.unifyErr
    /\ nextID = s.nextID
    /\ nextDocID = s.nextDocID
    /\ visited = s.visited
    /\ updatedRngIDs = s.updatedRngIDs
    /\ resultsToUpdate = s.resultsToUpdate
    /\ defResultsByPath = s.defResultsByPath
    /\ merged = s.merged
    /\ newIDFailed = s.newIDFailed

\* how the patch dump shows a file, given its status
PatchVariants(status) ==
    {v \in [Paths -> Variants] :
        \A path \in Paths :
            /\ status[path] = Modified => v[path] = "moved"
            /\ status[path] \in {Added, Deleted} => v[path] = "same"}

Init ==
    \E status \in [Paths -> Statuses], nb \in 1..MaxShards, np \in 1..MaxShards, off \in RngOffsets,
       project \in Projects, perIteration \in BOOLEAN :
      \E reindexed \in SUBSET {path \in Paths : status[path] # Deleted} :
        \E inPatch \in {pp \in SUBSET {path \in Paths : status[path] # Deleted} : reindexed \subseteq pp} :
          \E v \in PatchVariants(status) :
            LET b == EncodeBundle(project, {path \in Paths : status[path] # Added}, [path \in Paths |-> "same"], BaseNS, nb)
                p == EncodeBundle(project, inPatch, v, PatchNS(off), np)
            IN /\ fileStatus = status
               /\ loopVarPerIteration = perIteration
               /\ HookUnused
               /\ ButtonUnused
               /\ TourUnused
               /\ reindexedFiles = reindexed
               /\ base0 = b
               /\ patch0 = p
               /\ Starts(StartOf(b, p))

RemoveRefs ==
    /\ pc = "removeRefs"
    /\ Become(RemoveRefsStep(St, In))

UnifyDoc ==
    /\ pc = "unify"
    /\ \E c \in UnifyDocChoices(St, In) : Become(UnifyDocStep(St, In, c))

UnifyResults ==
    /\ pc = "unify"
    /\ VisitedPaths(St) = DOMAIN patch.documents
    /\ Become(UnifyResultsStep(St, In))

Collect ==
    /\ pc = "collect"
    /\ Become(CollectStep(St, In))

MergeCandidate ==
    /\ pc = "merge"
    /\ \E c \in MergeChoices(St, In) : Become(MergeCandidateStep(St, In, c))

Apply ==
    /\ pc = "apply"
    /\ Become(ApplyStep(St, In))

Next ==
    \/ RemoveRefs
    \/ UnifyDoc
    \/ UnifyResults
    \/ Collect
    \/ MergeCandidate
    \/ Apply

Spec == Init /\ [][Next]_vars

\* patchData is not called
PatchDataUnused ==
    LET none == [meta |-> [numResultChunks |-> 1], documents |-> [path \in {} |-> ZeroDoc],
                 resultChunks |-> [c \in {0} |-> [documentPaths |-> [d \in {} |-> ""],
                                                  documentIDRangeIDs |-> [id \in {} |-> <<>>]]]]
    IN /\ fileStatus = [path \in {} |-> Unchanged]
       /\ reindexedFiles = {}
       /\ loopVarPerIteration = FALSE
       /\ base0 = none
       /\ patch0 = none
       /\ Starts([StartOf(none, none) EXCEPT !.pc = "idle"])

(* ------------------------------------------------------------------ *)
(* What a caller observes of a bundle                                  *)
(* ------------------------------------------------------------------ *)

\* the location list stored for resultID
StoredLocs(bundle, resultID) ==
    Lookup(bundle.resultChunks[HashKey(resultID, bundle.meta.numResultChunks)].documentIDRangeIDs, resultID, <<>>)

\* the (path, rangeID) pairs the location list of resultID resolves to
ResolvedLocs(bundle, resultID) ==
    LET chunk == bundle.resultChunks[HashKey(resultID, bundle.meta.numResultChunks)]
        locs == StoredLocs(bundle, resultID)
    IN [x \in 1..Len(locs) |->
          [path |-> Lookup(chunk.documentPaths, locs[x].documentID, ""), rangeID |-> locs[x].rangeID]]

ResultKeys(bundle) == UNION {DOMAIN bundle.resultChunks[c].documentIDRangeIDs : c \in DOMAIN bundle.resultChunks}

\* the reference results: those the ranges of the base carried, and the refIDs of the merge
ReferenceResultIDs ==
    ({base0.documents[path].ranges[id].referenceResultID :
        <<path, id>> \in {<<pa, i>> \in (DOMAIN base0.documents) \X (1..Len(Occ)) :
                             i \in DOMAIN base0.documents[pa].ranges}}
     \cup {merged[x].refID : x \in 1..Len(merged)}) \ {NoID}

AllUnchanged == \A path \in DOMAIN fileStatus : fileStatus[path] = Unchanged

DeletedPaths == {path \in DOMAIN fileStatus : fileStatus[path] = Deleted}

Succeeded == pc = "done" /\ err = NilErr

(* ------------------------------------------------------------------ *)
(* C1                                                                  *)
(* ------------------------------------------------------------------ *)

\* C1: when every path of fileStatus is unchanged and reindexedFiles is empty, the base
\* bundle after patchData equals the base bundle it was called with, whatever the patch holds.
C1_IdempotentIdentity ==
    (pc = "done" /\ AllUnchanged /\ reindexedFiles = {}) => base = base0

\* such a call has returned, and unifyRangeIDs has relabelled documents of the patch
C1_Witness ==
    /\ pc = "done"
    /\ AllUnchanged
    /\ reindexedFiles = {}
    /\ DOMAIN patch0.documents = Paths
    /\ patch.documents # patch0.documents
    /\ base = base0

(* ------------------------------------------------------------------ *)
(* C3, C4                                                              *)
(* ------------------------------------------------------------------ *)

\* C3: after a successful merge the documents of the base have no entry for a deleted path.
C3_DeletedDocumentsRemoved ==
    Succeeded => \A path \in DeletedPaths : path \notin DOMAIN base.documents

\* a merge succeeded that was given a deleted path the base had a document for
C3_Witness ==
    /\ Succeeded
    /\ \E path \in DeletedPaths : path \in DOMAIN base0.documents

MismatchedPaths ==
    {path \in DOMAIN patch0.documents :
        /\ fileStatus[path] = Unchanged
        /\ UnchangedMapping(DocOf(base0.documents, path), patch0.documents[path]).err # NilErr}

\* the unchanged paths of the patch whose range count differs from the base's
CountMismatchedPaths ==
    {path \in DOMAIN patch0.documents :
        /\ fileStatus[path] = Unchanged
        /\ Cardinality(DOMAIN patch0.documents[path].ranges) # Cardinality(DOMAIN DocOf(base0.documents, path).ranges)}

\* C2: when an unchanged path of the patch has ranges that differ from the base's, patchData
\* returns the unequal-unmodified-paths error, without merging and without applying.
C2_MismatchReturned ==
    (pc = "done" /\ MismatchedPaths # {} /\ ~newIDFailed) =>
        (err = unequalUnmodifiedPathsErr /\ merged = <<>> /\ base.documents = base0.documents)

\* C7: when a newID call fails, patchData returns that error and the apply phase has not run.
C7_NewIDFailureReturned ==
    (pc = "done" /\ newIDFailed) => (err = NewIDErr /\ base.documents = base0.documents)

\* C8: when an unchanged path of the patch has a range count that differs from the base's,
\* the base bundle after the call equals the base bundle before it.
C8_NoMutationOnMismatch ==
    (pc = "done" /\ CountMismatchedPaths # {}) => base = base0

(* ------------------------------------------------------------------ *)
(* C5, C6: the reference lists of the copied documents                 *)
(* ------------------------------------------------------------------ *)

\* C5: after a successful merge (no newID call failed, no unchanged path mismatched), every
\* range with a reference result of a copied document is listed, under its own path and
\* range ID, in the base list of that reference result.
C5_ReferenceClosure ==
    (Succeeded /\ ~newIDFailed /\ MismatchedPaths = {}) =>
        \A path \in pathsToCopy(In) :
            \A id \in DOMAIN DocOf(base.documents, path).ranges :
                LET refID == base.documents[path].ranges[id].referenceResultID
                IN refID # NoID =>
                     \E x \in 1..Len(ResolvedLocs(base, refID)) :
                        ResolvedLocs(base, refID)[x] = [path |-> path, rangeID |-> id]

\* the ranges of b in the patch whose definition is the range of a that lies where the
\* base range rid of a lies
PatchRefsTo(a, rid, b) ==
    {x \in DOMAIN patch0.documents[b].ranges :
        LET defs == ResolvedLocs(patch0, patch0.documents[b].ranges[x].definitionResultID)
        IN /\ patch0.documents[b].ranges[x].definitionResultID # NoID
           /\ \E y \in 1..Len(defs) :
                /\ defs[y].path = a
                /\ defs[y].rangeID \in DOMAIN patch0.documents[a].ranges
                /\ CompareRanges(patch0.documents[a].ranges[defs[y].rangeID], base0.documents[a].ranges[rid]) = 0}

\* C6: a is unchanged and holds a definition range whose reference result R has a list in
\* the base; the patch holds a, and b, which is added and has a range referring to that
\* definition.  After a successful merge (no newID failure, no mismatched path) the list of
\* R has every entry it had, and an entry for the range of b.
C6_CrossFileReferenceAdded ==
    (Succeeded /\ ~newIDFailed /\ MismatchedPaths = {}) =>
        \A a \in DOMAIN base0.documents, b \in DOMAIN patch0.documents :
            (fileStatus[a] = Unchanged /\ fileStatus[b] = Added /\ a \in DOMAIN patch0.documents) =>
                \A rid \in DOMAIN base0.documents[a].ranges :
                    LET rng == base0.documents[a].ranges[rid]
                        R == rng.referenceResultID
                        isDef == /\ rng.definitionResultID # NoID
                                 /\ \E y \in 1..Len(ResolvedLocs(base0, rng.definitionResultID)) :
                                       ResolvedLocs(base0, rng.definitionResultID)[y] = [path |-> a, rangeID |-> rid]
                    IN (isDef /\ R # NoID) =>
                         /\ \A y \in 1..Len(ResolvedLocs(base0, R)) :
                               \E z \in 1..Len(ResolvedLocs(base, R)) :
                                   ResolvedLocs(base, R)[z] = ResolvedLocs(base0, R)[y]
                         /\ \A x \in PatchRefsTo(a, rid, b) :
                               \E z \in 1..Len(ResolvedLocs(base, R)) :
                                   LET e == ResolvedLocs(base, R)[z]
                                   IN /\ e.path = b
                                      /\ e.rangeID \in DOMAIN DocOf(base.documents, b).ranges
                                      /\ CompareRanges(base.documents[b].ranges[e.rangeID],
                                                       patch0.documents[b].ranges[x]) = 0

(* ------------------------------------------------------------------ *)
(* C9, C10: the merge as a function of its arguments and of the        *)
(* iteration orders                                                    *)
(* ------------------------------------------------------------------ *)

\* patchData run from state s to its return, taking the iterations of unifyRangeIDs listed
\* in us and merging the candidates listed in ms, in that order
RECURSIVE RunWith(_, _, _, _)
RunWith(s, in, us, ms) ==
    IF s.pc = "removeRefs" THEN RunWith(RemoveRefsStep(s, in), in, us, ms)
    ELSE IF s.pc = "unify" /\ us # <<>> THEN RunWith(UnifyDocStep(s, in, Head(us)), in, Tail(us), ms)
    ELSE IF s.pc = "unify" THEN RunWith(UnifyResultsStep(s, in), in, us, ms)
    ELSE IF s.pc = "collect" THEN RunWith(CollectStep(s, in), in, us, ms)
    ELSE IF s.pc = "merge" /\ ms # <<>>
    THEN RunWith(MergeCandidateStep(s, in, [path |-> Head(ms).path, defRngID |-> Head(ms).defRngID,
                                            order |-> Head(ms).order, failAt |-> 0]),
                 in, us, Tail(ms))
    ELSE IF s.pc = "apply" THEN RunWith(ApplyStep(s, in), in, us, ms)
    ELSE s

\* patchData run from state s to its return with every map iterated in one fixed order
\* and no newID failure
RECURSIVE RunFixedOrder(_, _)
RunFixedOrder(s, in) ==
    IF s.pc = "removeRefs" THEN RunFixedOrder(RemoveRefsStep(s, in), in)
    ELSE IF s.pc = "unify" /\ UnifyDocChoices(s, in) # {}
    THEN RunFixedOrder(UnifyDocStep(s, in, CHOOSE c \in UnifyDocChoices(s, in) : ~c.fail), in)
    ELSE IF s.pc = "unify" THEN RunFixedOrder(UnifyResultsStep(s, in), in)
    ELSE IF s.pc = "collect" THEN RunFixedOrder(CollectStep(s, in), in)
    ELSE IF s.pc = "merge"
    THEN RunFixedOrder(MergeCandidateStep(s, in, CHOOSE c \in MergeChoices(s, in) : c.failAt = 0), in)
    ELSE IF s.pc = "apply" THEN RunFixedOrder(ApplyStep(s, in), in)
    ELSE s

IsFresh(id) == id >= BaseNS.fresh

\* an identifier, with every freshly minted one replaced by the same mark
Unfresh(id) == IF IsFresh(id) THEN BaseNS.fresh ELSE id

\* what is left of a bundle when the names of the freshly minted identifiers are forgotten:
\* any two bundles that are equal up to a renaming of fresh identifiers have the same image
UpToFresh(bundle) ==
    [documents |->
        [path \in DOMAIN bundle.documents |->
            {<<Unfresh(id),
               [bundle.documents[path].ranges[id] EXCEPT
                  !.definitionResultID = Unfresh(@), !.referenceResultID = Unfresh(@)]>> :
               id \in DOMAIN bundle.documents[path].ranges}],
     locations |->
        [id \in {i \in ResultKeys(bundle) : ~IsFresh(i)} |->
            [x \in 1..Len(ResolvedLocs(bundle, id)) |->
                [ResolvedLocs(bundle, id)[x] EXCEPT !.rangeID = Unfresh(@)]]]]

\* C9: for fixed arguments (no newID failure, no mismatched unchanged path) the merged base
\* bundle is the same, up to a renaming of the freshly minted identifiers, in whatever
\* order the maps are iterated.
C9_Reproducible ==
    (Succeeded /\ ~newIDFailed /\ MismatchedPaths = {}) =>
        UpToFresh(base) = UpToFresh(RunFixedOrder(StartOf(base0, patch0), In).base)

\* the bundle with its result lists distributed over n chunks
Reshard(bundle, n) ==
    LET keys == ResultKeys(bundle)
        locsOf(id) == StoredLocs(bundle, id)
        paths == [d \in UNION {DOMAIN bundle.resultChunks[c].documentPaths : c \in DOMAIN bundle.resultChunks} |->
                    LET c == CHOOSE c \in DOMAIN bundle.resultChunks : d \in DOMAIN bundle.resultChunks[c].documentPaths
                    IN bundle.resultChunks[c].documentPaths[d]]
        chunkKeys(c) == {id \in keys : HashKey(id, n) = c}
        chunkDocs(c) == UNION {{locsOf(id)[x].documentID : x \in 1..Len(locsOf(id))} : id \in chunkKeys(c)}
    IN [meta |-> [numResultChunks |-> n],
        documents |-> bundle.documents,
        resultChunks |-> [c \in 0..(n - 1) |->
                            [documentPaths |-> [d \in chunkDocs(c) |-> paths[d]],
                             documentIDRangeIDs |-> [id \in chunkKeys(c) |-> locsOf(id)]]]]

\* the result of the same call, with the same iteration orders, on the base resharded over n chunks
MergedOver(n) == RunWith(StartOf(Reshard(base0, n), patch0), In, visited, merged)

\* C10: merging into a base that differs only in its number of result chunks gives the same
\* documents and, for every result ID, a location list that resolves to the same
\* (path, rangeID) pairs.
C10_ShardCountIndependent ==
    Succeeded =>
        \A n \in 1..MaxShards :
            LET other == MergedOver(n)
            IN /\ other.pc = "done"
               /\ other.err = NilErr
               /\ other.base.documents = base.documents
               /\ \A id \in ResultKeys(base) \cup ResultKeys(other.base) :
                     ResolvedLocs(other.base, id) = ResolvedLocs(base, id)

\* a merge into a base of two chunks succeeded that wrote lists of freshly minted result
\* IDs into both chunks and registered freshly minted document IDs
C10_Witness ==
    /\ Succeeded
    /\ merged # <<>>
    /\ base0.meta.numResultChunks = 2
    /\ nextDocID > BaseNS.freshDoc
    /\ \A c \in DOMAIN base.resultChunks :
          \E id \in DOMAIN base.resultChunks[c].documentIDRangeIDs :
             IsFresh(id) /\ base.resultChunks[c].documentIDRangeIDs[id] # <<>>
    /\ MergedOver(1).base.resultChunks # base.resultChunks

(* ------------------------------------------------------------------ *)
(* C13, C14, C15: the patch when unifyRangeIDs has returned            *)
(* ------------------------------------------------------------------ *)

\* unifyRangeIDs has returned nil and patchData is at line 48
Unified == pc = "collect" /\ unifyErr = NilErr

\* the range IDs of the documents of a bundle
RangeIDs(bundle) == UNION {DOMAIN bundle.documents[path].ranges : path \in DOMAIN bundle.documents}

\* C13: after unifyRangeIDs has returned without error, every entry of a location list of
\* the patch that named a range of the patch document of its path before the call names a
\* range of that document with the same position and result fields: the keys of the
\* documents and the rangeIDs of the lists are rewritten with the same mapping.  (Stated
\* for the calls in which no range ID of the patch is a range ID of the base.)
C13_ListsFollowRanges ==
    (Unified /\ RangeIDs(patch0) \cap RangeIDs(base0) = {}) =>
        \A id \in ResultKeys(patch0) :
            \A x \in 1..Len(ResolvedLocs(patch0, id)) :
                LET before == ResolvedLocs(patch0, id)[x]
                    after == ResolvedLocs(patch, id)[x]
                IN (/\ before.path \in DOMAIN patch0.documents
                    /\ before.rangeID \in DOMAIN patch0.documents[before.path].ranges) =>
                       /\ after.path = before.path
                       /\ after.rangeID \in DOMAIN patch.documents[after.path].ranges
                       /\ patch.documents[after.path].ranges[after.rangeID] =
                             patch0.documents[before.path].ranges[before.rangeID]

\* C14: after unifyRangeIDs has returned without error, the patch document of every
\* unchanged path has the range IDs of the base document, and under each ID the range of
\* the patch that lay at the position of the base range, with its fields as they were; also
\* when a range ID of the patch equals a range ID of the base.
C14_UnchangedRelabelled ==
    Unified =>
        \A path \in DOMAIN patch.documents :
            fileStatus[path] = Unchanged =>
                /\ DOMAIN patch.documents[path].ranges = DOMAIN DocOf(base0.documents, path).ranges
                /\ \A id \in DOMAIN patch.documents[path].ranges :
                      \E old \in DOMAIN patch0.documents[path].ranges :
                         /\ CompareRanges(patch0.documents[path].ranges[old], base0.documents[path].ranges[id]) = 0
                         /\ patch.documents[path].ranges[id] = patch0.documents[path].ranges[old]

\* C15: after unifyRangeIDs has returned without error, every range of the patch document
\* of an added or modified path has a freshly minted key, none of the keys it had remains,
\* the ranges are the ones the document had; and that document is the one the apply phase
\* copies into the base.
C15_ChangedRelabelled ==
    /\ Unified =>
          \A path \in DOMAIN patch.documents :
              fileStatus[path] \in {Added, Modified} =>
                  /\ \A id \in DOMAIN patch.documents[path].ranges :
                        IsFresh(id) /\ id \notin DOMAIN patch0.documents[path].ranges
                  /\ Cardinality(DOMAIN patch.documents[path].ranges) =
                        Cardinality(DOMAIN patch0.documents[path].ranges)
                  /\ {patch.documents[path].ranges[id] : id \in DOMAIN patch.documents[path].ranges} =
                        {patch0.documents[path].ranges[id] : id \in DOMAIN patch0.documents[path].ranges}
    /\ (Succeeded /\ unifyErr = NilErr) =>
          \A path \in pathsToCopy(In) \cap DOMAIN patch0.documents :
              fileStatus[path] \in {Added, Modified} =>
                  \A id \in DOMAIN DocOf(base.documents, path).ranges : IsFresh(id)

(* ------------------------------------------------------------------ *)
(* C16: the error unifyRangeIDs returns                                *)
(* ------------------------------------------------------------------ *)

\* the positions of the ranges of a document, in ascending order
SortedPositions(doc) ==
    LET ids == CHOOSE q \in sortedRangeIDs(doc.ranges) : TRUE
    IN [idx \in 1..Len(ids) |->
          <<doc.ranges[ids[idx]].startLine, doc.ranges[ids[idx]].startCharacter,
            doc.ranges[ids[idx]].endLine, doc.ranges[ids[idx]].endCharacter>>]

\* the unchanged paths of the patch whose sorted ranges differ from the base's in number
\* or, at some index, in position
DifferingPaths ==
    {path \in DOMAIN patch0.documents :
        /\ fileStatus[path] = Unchanged
        /\ SortedPositions(patch0.documents[path]) # SortedPositions(DocOf(base0.documents, path))}

\* C16: when unifyRangeIDs has returned and no newID call of it has failed, it has returned
\* the unequal-unmodified-paths error if some unchanged path of the patch has sorted ranges
\* that differ from the base's in number or in a position, and nil otherwise.
C16_MismatchDetected ==
    (pc \notin {"removeRefs", "unify"} /\ unifyErr # NewIDErr) =>
        /\ DifferingPaths # {} => unifyErr = unequalUnmodifiedPathsErr
        /\ DifferingPaths = {} => unifyErr = NilErr

\* unifyRangeIDs has returned the error for a patch in which every unchanged document has
\* as many ranges as the base's, one of them at other positions
C16_Witness ==
    /\ pc = "collect"
    /\ unifyErr = unequalUnmodifiedPathsErr
    /\ CountMismatchedPaths = {}
    /\ DifferingPaths # {}

(* ------------------------------------------------------------------ *)
(* C17: the result IDs of a candidate definition                       *)
(* ------------------------------------------------------------------ *)

\* C17: for every candidate definition merged (no newID failure, no mismatched unchanged
\* path): if its path is unchanged, defID and refID are the definition and reference result
\* IDs of the range of the base document that lies where the candidate range lies; else
\* they are two freshly minted IDs that no result of the base has.
C17_CanonicalResultIDs ==
    (~newIDFailed /\ MismatchedPaths = {}) =>
        \A x \in 1..Len(merged) :
            LET m == merged[x]
                candidate == RangeOf(patch0.documents, m.path, m.defRngID)
            IN IF fileStatus[m.path] = Unchanged
               THEN \E rid \in DOMAIN DocOf(base0.documents, m.path).ranges :
                       /\ CompareRanges(base0.documents[m.path].ranges[rid], candidate) = 0
                       /\ m.defID = base0.documents[m.path].ranges[rid].definitionResultID
                       /\ m.refID = base0.documents[m.path].ranges[rid].referenceResultID
               ELSE /\ IsFresh(m.defID) /\ IsFresh(m.refID) /\ m.defID # m.refID
                    /\ {m.defID, m.refID} \cap ResultKeys(base0) = {}

(* ------------------------------------------------------------------ *)
(* C18, C19, C20: the entries the merge appends                        *)
(* ------------------------------------------------------------------ *)

\* the path a document ID stands for in the chunk of the base that holds resultID
BasePathOf(resultID, documentID) ==
    Lookup(base.resultChunks[HashKey(resultID, base.meta.numResultChunks)].documentPaths, documentID, "")

\* C18: every reference location the merge has appended to a base reference list has a
\* document ID that the chunk of that list resolves to the path of the patch reference it
\* was made from, and the range ID of that patch reference.  (Stated for the calls in which
\* unifyRangeIDs returns nil.)
C18_RelocatedReferencePath ==
    unifyErr = NilErr =>
    \A x \in 1..Len(merged) :
        \A y \in 1..Len(merged[x].log) :
            LET l == merged[x].log[y]
            IN l.refAdded # <<>> =>
                  /\ BasePathOf(merged[x].refID, l.refAdded[1].documentID) = l.patchPath
                  /\ l.refAdded[1].rangeID = l.rangeID

\* C19: no chunk of the base has a freshly minted document ID for a path for which it has
\* another document ID.  (Stated for the calls in which unifyRangeIDs returns nil.)
C19_DocumentIDReuse ==
    unifyErr = NilErr =>
    \A c \in DOMAIN base.resultChunks :
        \A d, e \in DOMAIN base.resultChunks[c].documentPaths :
            (d # e /\ base.resultChunks[c].documentPaths[d] = base.resultChunks[c].documentPaths[e]) =>
                (d < BaseNS.freshDoc /\ e < BaseNS.freshDoc)

\* the patch definition locations of the candidate merged[x], as (path, rangeID) pairs
PatchDefsOf(x) ==
    ResolvedLocs(patch, defResultsByPath[merged[x].path][merged[x].defRngID].definitionResultID)

\* C20: for every patch reference processed for a candidate: if the base list of defID was
\* empty and the patch definition list has a location with the path and the range ID of the
\* reference, the entry appended to the base list of defID stands for that path and has that
\* range ID; else nothing is appended.  (Stated for the calls in which unifyRangeIDs returns
\* nil.)
C20_MissingDefinitionMerged ==
    unifyErr = NilErr =>
    \A x \in 1..Len(merged) :
        \A y \in 1..Len(merged[x].log) :
            LET l == merged[x].log[y]
                found == \E z \in 1..Len(PatchDefsOf(x)) :
                            PatchDefsOf(x)[z] = [path |-> l.patchPath, rangeID |-> l.rangeID]
            IN IF l.baseDefsEmpty /\ found
               THEN /\ l.defAdded # <<>>
                    /\ BasePathOf(merged[x].defID, l.defAdded[1].documentID) = l.patchPath
                    /\ l.defAdded[1].rangeID = l.rangeID
               ELSE l.defAdded = <<>>

(* ------------------------------------------------------------------ *)
(* useLocalStorage                                                     *)
(* ------------------------------------------------------------------ *)

\* most setValue calls made between two mounts of the component
MaxSetValueCalls == 3

\* the localStorage key the hook is given
key == "key"

\* the values of the type T the hook is used with: a JavaScript value is its type and its
\* digits or characters
JSValues == {[type |-> "number", repr |-> "0"], [type |-> "number", repr |-> "1"],
             [type |-> "string", repr |-> "1"]}

\* JSON.stringify: a number is its digits, a string is its characters between double quotes
JSONStringify(value) ==
    IF value.type = "string" THEN "\"" \o value.repr \o "\"" ELSE value.repr

\* JSON.parse: the value the text denotes; ok is FALSE when it throws a SyntaxError
JSONParse(text) ==
    IF \E value \in JSValues : JSONStringify(value) = text
    THEN [ok |-> TRUE, value |-> CHOOSE value \in JSValues : JSONStringify(value) = text]
    ELSE [ok |-> FALSE, value |-> Undefined]

\* the texts found under the key when the component is mounted: what the hook wrote, the
\* empty string, and text that is not JSON
StoredTexts == {JSONStringify(value) : value \in JSValues} \cup {"", "{"}

\* localStorage.getItem: the text under k, or null (the empty sequence)
getItem(storage, k) == IF k \in DOMAIN storage THEN <<storage[k]>> ELSE <<>>

\* localStorage.setItem
setItem(storage, k, text) == [x \in (DOMAIN storage) \cup {k} |-> IF x = k THEN text ELSE storage[x]]

\* lines 10-17: the initializer of useState
InitialState(storage, initial) ==
    LET item == getItem(storage, key)
    IN IF item = <<>> \/ item[1] = "" THEN initial
       ELSE IF JSONParse(item[1]).ok THEN JSONParse(item[1]).value
       ELSE initial

\* the functions (value_: T) => T given to setValue
Updaters == {"other", "zero"}

ApplyUpdater(fn, value) ==
    IF fn = "zero" THEN [type |-> "number", repr |-> "0"]
    ELSE IF value.type = "number"
    THEN [type |-> "number", repr |-> IF value.repr = "0" THEN "1" ELSE "0"]
    ELSE value

\* the hook as one record
Hook == [localStorage |-> localStorage, hookState |-> hookState, storedValue |-> storedValue,
         setValueCalls |-> setValueCalls, uncaught |-> uncaught]

\* lines 21-22 for the value valueToStore; throws: whether localStorage.setItem throws
\* (the quota is exceeded, or the storage is disabled)
setValue(h, valueToStore, throws) ==
    [h EXCEPT !.hookState = valueToStore,
              !.localStorage = IF throws THEN @ ELSE setItem(@, key, JSONStringify(valueToStore)),
              !.setValueCalls = @ + 1,
              !.uncaught = throws]

HookBecomes(h) ==
    /\ localStorage' = h.localStorage
    /\ hookState' = h.hookState
    /\ storedValue' = h.storedValue
    /\ setValueCalls' = h.setValueCalls
    /\ uncaught' = h.uncaught
    /\ UNCHANGED <<initialValue, patchVars, buttonVars, tourVars>>

\* the component is mounted: the state after the first render
InitLocalStorage ==
    /\ PatchDataUnused
    /\ ButtonUnused
    /\ TourUnused
    /\ \E initial \in JSValues, storage \in {[k \in {} |-> ""]} \cup {[k \in {key} |-> text] : text \in StoredTexts} :
          /\ initialValue = initial
          /\ localStorage = storage
          /\ hookState = InitialState(storage, initial)
          /\ storedValue = InitialState(storage, initial)
          /\ setValueCalls = 0
          /\ uncaught = FALSE

\* setValue(value) with a value of T
SetValue ==
    /\ setValueCalls < MaxSetValueCalls
    /\ \E value \in JSValues, throws \in BOOLEAN : HookBecomes(setValue(Hook, value, throws))

\* setValue(fn) with a function: line 20 applies it to storedValue of the closure
SetValueWithFunction ==
    /\ setValueCalls < MaxSetValueCalls
    /\ \E fn \in Updaters, throws \in BOOLEAN :
          HookBecomes(setValue(Hook, ApplyUpdater(fn, storedValue), throws))

\* React renders the component again: the hook returns the state cell
Render ==
    /\ storedValue # hookState
    /\ HookBecomes([Hook EXCEPT !.storedValue = hookState])

\* the page is loaded again: the initializer of useState reads the storage
Remount ==
    /\ setValueCalls > 0
    /\ HookBecomes([Hook EXCEPT !.hookState = InitialState(localStorage, initialValue),
                                !.storedValue = InitialState(localStorage, initialValue),
                                !.setValueCalls = 0,
                                !.uncaught = FALSE])

NextLocalStorage ==
    \/ SetValue
    \/ SetValueWithFunction
    \/ Render
    \/ Remount

SpecLocalStorage == InitLocalStorage /\ [][NextLocalStorage]_vars

\* C11: once setValue has been called and the component has rendered, the value the hook
\* returns equals the JSON-parsed text stored under the key, also when a setItem call failed.
C11_StateMatchesStorage ==
    (setValueCalls >= 1 /\ storedValue = hookState) =>
        /\ getItem(localStorage, key) # <<>>
        /\ JSONParse(getItem(localStorage, key)[1]).ok
        /\ JSONParse(getItem(localStorage, key)[1]).value = storedValue

(* ------------------------------------------------------------------ *)
(* DropdownButton                                                      *)
(* ------------------------------------------------------------------ *)

\* most actions given to the component
MaxActions == 2

\* most clicks on the main button
MaxTriggers == 2

\* the state of the component as one record
Button == [isDisabled |-> isDisabled, isOpen |-> isOpen, selected |-> selected,
           renderedElement |-> renderedElement, invocations |-> invocations]

\* lines 56-66: the selected action (its type), or the empty sequence for undefined; the
\* indices of the code count from 0
selectedAction(acts, default, sel) ==
    IF Len(acts) = 1 THEN <<acts[1]>>
    ELSE LET id == IF sel # <<>> THEN sel ELSE default
         IN IF id # <<>> /\ id[1] >= 0 /\ id[1] < Len(acts) THEN <<acts[id[1] + 1]>> ELSE <<>>

\* line 124: the attribute disabled of the main button
ButtonDisabled ==
    isDisabled \/ Len(actions) = 0 \/ selectedAction(actions, defaultAction, selected) = <<>>

\* mutant: line 88 is missing, the button is not disabled
onTriggerAction_staysEnabled(b, action) ==
    IF action = <<>> THEN b
    ELSE [b EXCEPT !.invocations = Append(@, [action |-> action[1], calledBack |-> "", settled |-> FALSE])]

\* lines 83-89: the click handler, up to the call of onTrigger
onTriggerAction(b, action) ==
    IF action = <<>> THEN b
    ELSE [b EXCEPT !.isDisabled = TRUE,
                   !.invocations = Append(@, [action |-> action[1], calledBack |-> "", settled |-> FALSE])]

\* lines 90-97: onDone or onCancel of the i-th onTrigger call
Callback(b, i, which) ==
    [b EXCEPT !.isDisabled = FALSE, !.renderedElement = <<>>, !.invocations[i].calledBack = which]

\* lines 89 and 99-101: the promise of the i-th onTrigger call is fulfilled with element
\* (the empty sequence for undefined)
Fulfilled(b, i, element) ==
    [b EXCEPT !.renderedElement = IF element # <<>> THEN element ELSE @,
              !.invocations[i].settled = TRUE]

\* lines 68-80: the dropdown item of an action type is chosen
onSelectedTypeSelect(b, acts, type) ==
    LET index == {x \in 1..Len(acts) : acts[x] = type}
    IN [b EXCEPT !.selected = IF index # {} THEN <<(CHOOSE x \in index : \A y \in index : x <= y) - 1>> ELSE <<>>,
                 !.isOpen = FALSE]

ButtonBecomes(b) ==
    /\ isDisabled' = b.isDisabled
    /\ isOpen' = b.isOpen
    /\ selected' = b.selected
    /\ renderedElement' = b.renderedElement
    /\ invocations' = b.invocations
    /\ UNCHANGED <<actions, defaultAction, patchVars, hookVars, tourVars>>

\* the component after its first render, for some props
InitDropdown ==
    /\ PatchDataUnused
    /\ HookUnused
    /\ TourUnused
    /\ \E n \in 0..MaxActions, default \in {<<>>} \cup {<<d>> : d \in (0 - 1)..MaxActions},
          disabled \in BOOLEAN, initiallyOpen \in BOOLEAN :
          /\ actions = [x \in 1..n |-> x]
          /\ defaultAction = default
          /\ isDisabled = disabled
          /\ isOpen = initiallyOpen
          /\ selected = <<>>
          /\ renderedElement = <<>>
          /\ invocations = <<>>

\* the main button is clicked; a disabled button receives no click
Click ==
    /\ ~ButtonDisabled
    /\ Len(invocations) < MaxTriggers
    /\ ButtonBecomes(onTriggerAction(Button, selectedAction(actions, defaultAction, selected)))

\* the action calls onDone; an onTrigger call is answered by one of onDone and onCancel, once
OnDone ==
    \E i \in 1..Len(invocations) :
        /\ invocations[i].calledBack = ""
        /\ ButtonBecomes(Callback(Button, i, "onDone"))

\* the action calls onCancel
OnCancel ==
    \E i \in 1..Len(invocations) :
        /\ invocations[i].calledBack = ""
        /\ ButtonBecomes(Callback(Button, i, "onCancel"))

\* the promise onTrigger returned is fulfilled, with an element (named by the number of
\* the call) or with undefined
PromiseFulfilled ==
    \E i \in 1..Len(invocations) :
        \E element \in {<<>>, <<i>>} :
            /\ ~invocations[i].settled
            /\ ButtonBecomes(Fulfilled(Button, i, element))

\* the promise onTrigger returned is rejected: the handler ends at line 89
PromiseRejected ==
    \E i \in 1..Len(invocations) :
        /\ ~invocations[i].settled
        /\ ButtonBecomes([Button EXCEPT !.invocations[i].settled = TRUE])

\* the toggle is clicked; it is rendered when there are several actions
ToggleIsOpen ==
    /\ Len(actions) > 1
    /\ ButtonBecomes([Button EXCEPT !.isOpen = ~@])

\* an item of the open dropdown is clicked
SelectType ==
    /\ Len(actions) > 1
    /\ isOpen
    /\ \E x \in 1..Len(actions) : ButtonBecomes(onSelectedTypeSelect(Button, actions, actions[x]))

NextDropdown ==
    \/ Click
    \/ OnDone
    \/ OnCancel
    \/ PromiseFulfilled
    \/ PromiseRejected
    \/ ToggleIsOpen
    \/ SelectType

SpecDropdown == InitDropdown /\ [][NextDropdown]_vars

\* the onTrigger calls that neither onDone nor onCancel has answered
PendingInvocations == {i \in 1..Len(invocations) : invocations[i].calledBack = ""}

\* C12: while an onTrigger call has not been answered by onDone or onCancel the main button
\* is disabled and no other onTrigger call is unanswered; when every call made has been
\* answered the button is enabled.
C12_DisabledWhilePending ==
    /\ PendingInvocations # {} => ButtonDisabled
    /\ Cardinality(PendingInvocations) <= 1
    /\ (invocations # <<>> /\ PendingInvocations = {}) => ~ButtonDisabled

\* a second onTrigger call is pending after the first one was answered
C12_Witness ==
    /\ Len(invocations) = 2
    /\ invocations[1].calledBack # ""
    /\ PendingInvocations = {2}
    /\ ButtonDisabled

(* ------------------------------------------------------------------ *)
(* C21: the ranges the merge rewrites                                  *)
(* ------------------------------------------------------------------ *)

\* unifyRangeIDs run from state s with the iterations listed in us
RECURSIVE UnifyWith(_, _, _)
UnifyWith(s, in, us) ==
    IF s.pc # "unify" THEN s
    ELSE IF us = <<>> THEN UnifyResultsStep(s, in)
    ELSE UnifyWith(UnifyDocStep(s, in, Head(us)), in, Tail(us))

\* the patch bundle as unifyRangeIDs left it in this call
UnifiedPatch == UnifyWith(RemoveRefsStep(StartOf(base0, patch0), In), In, visited).patch

\* C21: when the merge loop has ended (unifyRangeIDs returned nil, no newID failure), for
\* every patch reference of every candidate merged whose path is in pathsToCopy, the range of
\* the patch document under the reference's range ID has the candidate's defID and refID and
\* the position, hover result and monikers it had before the loop; the documents of the
\* other paths are as they were before the loop.
C21_CopiedRangesCanonical ==
    (pc \in {"apply", "done"} /\ err = NilErr /\ unifyErr = NilErr) =>
        /\ \A x \in 1..Len(merged) :
              \A y \in 1..Len(merged[x].log) :
                  LET l == merged[x].log[y]
                      now == RangeOf(patch.documents, l.patchPath, l.rangeID)
                      before == RangeOf(UnifiedPatch.documents, l.patchPath, l.rangeID)
                  IN l.patchPath \in pathsToCopy(In) =>
                        now = [before EXCEPT !.definitionResultID = merged[x].defID,
                                             !.referenceResultID = merged[x].refID]
        /\ \A path \in (DOMAIN patch.documents) \ pathsToCopy(In) :
              patch.documents[path] = UnifiedPatch.documents[path]

(* ------------------------------------------------------------------ *)
(* C22, C23: removeRefsIn                                              *)
(* ------------------------------------------------------------------ *)

\* removeRefsIn has run and the merge loop has not yet touched the base
RefsRemoved == pc \in {"unify", "collect"}

\* the reference results carried by the ranges of the base documents at paths
RefsCarriedIn(paths) ==
    {base0.documents[pa].ranges[i].referenceResultID :
        <<pa, i>> \in {<<pa, i>> \in (paths \cap DOMAIN base0.documents) \X RangeIDs(base0) :
                          i \in DOMAIN base0.documents[pa].ranges}}

\* locs without the entries that the chunk of resultID resolves to one of paths
LocsOutside(bundle, resultID, paths) ==
    LET chunk == bundle.resultChunks[HashKey(resultID, bundle.meta.numResultChunks)]
    IN SelectSeq(StoredLocs(bundle, resultID),
                 LAMBDA ref : Lookup(chunk.documentPaths, ref.documentID, "") \notin paths)

\* C22: once removeRefsIn has run on the modified and deleted paths, the base location list
\* of every reference result carried by a range of a base document at one of those paths is
\* the list it was before with the entries that resolve to one of those paths taken out:
\* no such entry is left, every other entry is kept, in the original order.
C22_ReferencesFiltered ==
    RefsRemoved =>
        \A id \in RefsCarriedIn(modifiedOrDeletedPaths(fileStatus)) \ {NoID} :
            StoredLocs(base, id) = LocsOutside(base0, id, modifiedOrDeletedPaths(fileStatus))

\* removeRefsIn has shortened a list and kept two of its entries
C22_Witness ==
    /\ RefsRemoved
    /\ \E id \in RefsCarriedIn(modifiedOrDeletedPaths(fileStatus)) \ {NoID} :
          /\ Len(StoredLocs(base, id)) >= 2
          /\ Len(StoredLocs(base, id)) < Len(StoredLocs(base0, id))

\* C23: once removeRefsIn has run, the base differs from the base of the call at most in
\* the location lists stored under the reference results carried by ranges of the documents
\* at modified or deleted paths: the documents, the meta data, the documentPaths and the
\* set of result keys of every chunk and every other list are the same, also when a range
\* of such a document has no reference result; with no modified or deleted path the base
\* is unchanged.
C23_OnlyCarriedListsChange ==
    RefsRemoved =>
        /\ base.documents = base0.documents
        /\ base.meta = base0.meta
        /\ DOMAIN base.resultChunks = DOMAIN base0.resultChunks
        /\ \A c \in DOMAIN base0.resultChunks :
              /\ base.resultChunks[c].documentPaths = base0.resultChunks[c].documentPaths
              /\ DOMAIN base.resultChunks[c].documentIDRangeIDs =
                     DOMAIN base0.resultChunks[c].documentIDRangeIDs
              /\ \A id \in (DOMAIN base0.resultChunks[c].documentIDRangeIDs)
                              \ RefsCarriedIn(modifiedOrDeletedPaths(fileStatus)) :
                     base.resultChunks[c].documentIDRangeIDs[id] =
                         base0.resultChunks[c].documentIDRangeIDs[id]
        /\ modifiedOrDeletedPaths(fileStatus) = {} => base = base0

(* ------------------------------------------------------------------ *)
(* C24: no location twice in a list                                    *)
(* ------------------------------------------------------------------ *)

\* no location list of the bundle has two entries that resolve to the same path and range
NoDuplicateLocs(bundle) ==
    \A id \in ResultKeys(bundle) :
        \A x1, x2 \in 1..Len(ResolvedLocs(bundle, id)) :
            x1 # x2 => ResolvedLocs(bundle, id)[x1] # ResolvedLocs(bundle, id)[x2]

\* C24: when no location list of the base of the call has two entries that resolve to the
\* same (path, rangeID), no location list of the base has after patchData has returned nil.
C24_NoDuplicateLocations ==
    (Succeeded /\ NoDuplicateLocs(base0)) => NoDuplicateLocs(base)

(* ------------------------------------------------------------------ *)
(* C25: the ranges of the documents copied into the base               *)
(* ------------------------------------------------------------------ *)

\* C25: after a successful merge the document the base holds for a path of pathsToCopy
\* that the patch has a document for has as many ranges as the document the patch was
\* given for that path, at the same positions (as a multiset): no range is added and
\* none is dropped.  (Stated for the calls in which unifyRangeIDs returns nil.)
C25_CopiedRangesPreserved ==
    (Succeeded /\ unifyErr = NilErr) =>
        \A path \in pathsToCopy(In) \cap DOMAIN patch0.documents :
            SortedPositions(DocOf(base.documents, path)) = SortedPositions(patch0.documents[path])

(* ------------------------------------------------------------------ *)
(* C28: DropdownButton, the element an action returns                  *)
(* ------------------------------------------------------------------ *)

\* C28: once onDone or onCancel of an onTrigger call has been called and the promise the
\* call returned has been fulfilled, in whichever order, the component does not render the
\* element that call returned.
C28_NoElementAfterCallback ==
    \A i \in 1..Len(invocations) :
        (invocations[i].calledBack # "" /\ invocations[i].settled) => renderedElement # <<i>>

(* ------------------------------------------------------------------ *)
(* useSearchOnboardingTour                                             *)
(* ------------------------------------------------------------------ *)

HAS_CANCELLED_TOUR_KEY == "has-cancelled-onboarding-tour"

HAS_COMPLETED_TOUR_KEY == "has-completed-onboarding-tour"

\* the steps useCurrentStep can report
TOUR_STEPS == {"filter-repository", "filter-lang", "add-query-term"}

\* the language names the lang filter accepts (two of them)
LANGUAGES == {"go", "python"}

\* the tokens of the scanner: a filter has a field and, when a value was typed, a value
\* that is a literal or a quoted string; <<>> is undefined
FilterToken(field, value) == [type |-> "filter", field |-> field, value |-> value]

Literal(text) == <<[type |-> "literal", value |-> text]>>

Quoted(text) == <<[type |-> "quoted", value |-> text]>>

WhitespaceToken == [type |-> "whitespace", field |-> "", value |-> <<>>]

PatternToken == [type |-> "pattern", field |-> "", value |-> <<>>]

\* the queries typed into the input
Queries == {"", "repo:", "lang:", "repo:foo", "repo:foo ", "lang:go ", "lang:zzz ", "lang:\"go\" ",
            "lang:go x", "file:a ", "x"}

\* lines 398-401: the tokens of the query
scanSearchQuery(query) ==
    CASE query = "" -> <<>>
      [] query = "repo:" -> <<FilterToken("repo", <<>>)>>
      [] query = "lang:" -> <<FilterToken("lang", <<>>)>>
      [] query = "repo:foo" -> <<FilterToken("repo", Literal("foo"))>>
      [] query = "repo:foo " -> <<FilterToken("repo", Literal("foo")), WhitespaceToken>>
      [] query = "lang:go " -> <<FilterToken("lang", Literal("go")), WhitespaceToken>>
      [] query = "lang:zzz " -> <<FilterToken("lang", Literal("zzz")), WhitespaceToken>>
      [] query = "lang:\"go\" " -> <<FilterToken("lang", Quoted("go")), WhitespaceToken>>
      [] query = "lang:go x" -> <<FilterToken("lang", Literal("go")), WhitespaceToken, PatternToken>>
      [] query = "file:a " -> <<FilterToken("file", Literal("a")), WhitespaceToken>>
      [] query = "x" -> <<PatternToken>>

shouldTriggerSuggestions(currentTourStep, queryTokens) ==
    IF Len(queryTokens) # 1 THEN FALSE
    ELSE IF queryTokens[1].type # "filter" \/ queryTokens[1].value # <<>> THEN FALSE
    ELSE IF currentTourStep = "filter-repository" THEN queryTokens[1].field = "repo"
    ELSE IF currentTourStep = "filter-lang" THEN queryTokens[1].field = "lang"
    ELSE FALSE

\* mutant: the test of LANGUAGES (line 143) is missing
shouldAdvanceLangOrRepoStep_anyLanguage(currentTourStep, queryTokens) ==
    /\ Len(queryTokens) = 2
    /\ queryTokens[1].type = "filter"
    /\ queryTokens[2].type = "whitespace"
    /\ \/ currentTourStep = "filter-repository" /\ queryTokens[1].field = "repo" /\ queryTokens[1].value # <<>>
       \/ currentTourStep = "filter-lang" /\ queryTokens[1].field = "lang" /\ queryTokens[1].value # <<>>

shouldAdvanceLangOrRepoStep(currentTourStep, queryTokens) ==
    IF Len(queryTokens) # 2 THEN FALSE
    ELSE IF queryTokens[1].type # "filter" \/ queryTokens[2].type # "whitespace" THEN FALSE
    ELSE IF currentTourStep = "filter-repository"
    THEN queryTokens[1].field = "repo" /\ queryTokens[1].value # <<>>
    ELSE IF currentTourStep = "filter-lang"
    THEN /\ queryTokens[1].field = "lang"
         /\ queryTokens[1].value # <<>>
         /\ queryTokens[1].value[1].type = "literal"
         /\ queryTokens[1].value[1].value \in LANGUAGES
    ELSE FALSE

shouldShowSubmitSearch(currentTourStep, queryTokens) ==
    /\ currentTourStep = "add-query-term"
    /\ \E x \in 1..Len(queryTokens) : queryTokens[x].type = "pattern"

\* JSON.stringify and the useState initializer of useLocalStorage, for a boolean
StringifyBoolean(value) == IF value THEN "true" ELSE "false"

InitialBoolean(storage, k, initial) ==
    LET item == getItem(storage, k)
    IN IF item = <<>> \/ item[1] = "" THEN initial
       ELSE IF item[1] \in {"true", "false"} THEN item[1] = "true"
       ELSE initial

\* what is found in localStorage when the page is loaded
TourStorages ==
    {[k \in {} |-> ""]} \cup {[k \in {HAS_CANCELLED_TOUR_KEY} |-> text] : text \in {"true", "false"}}

\* the values of daysActiveCount
DaysActive == {1, 2}

\* the mutable state of the hook and of its tour, as one record
Tour == [queryState |-> queryState, tourStorage |-> tourStorage, hasCancelledTour |-> hasCancelledTour,
         currentStep |-> currentStep, suggestions |-> suggestions, activeTour |-> activeTour,
         shownStep |-> shownStep, cancelEmitted |-> cancelEmitted, setItemThrew |-> setItemThrew,
         lastShow |-> lastShow, lastEffect |-> lastEffect]

NoShow == [step |-> "", currentStep |-> "", query |-> ""]

NoEffect == [branch |-> "", currentStep |-> "", query |-> "", show |-> ""]

\* the state after the first render of a newly mounted component
Mounted(storage) ==
    [queryState |-> "", tourStorage |-> storage,
     hasCancelledTour |-> InitialBoolean(storage, HAS_CANCELLED_TOUR_KEY, FALSE),
     currentStep |-> "", suggestions |-> FALSE, activeTour |-> FALSE, shownStep |-> "",
     cancelEmitted |-> FALSE, setItemThrew |-> FALSE, lastShow |-> NoShow, lastEffect |-> NoEffect]

shouldShowTour(t) == showOnboardingTour /\ daysActiveCount = 1 /\ ~t.hasCancelledTour

\* tour.show(id): Shepherd makes the tour the active tour when it is not, emits 'show', on
\* which the listener of useCurrentStep sets currentStep, and displays the step
TourShow(t, id) ==
    [t EXCEPT !.activeTour = TRUE, !.shownStep = id,
              !.currentStep = IF id \in TOUR_STEPS THEN id ELSE ""]

\* a tour.show call made by the hook
HookShow(t, id) ==
    [TourShow(t, id) EXCEPT !.lastShow = [step |-> id, currentStep |-> t.currentStep, query |-> t.queryState]]

\* setValue of useLocalStorage with the value true; throws: whether localStorage.setItem throws
SetTrue(t, k, throws) ==
    [t EXCEPT !.tourStorage = IF throws THEN @ ELSE setItem(@, k, StringifyBoolean(TRUE)),
              !.setItemThrew = @ \/ throws]

\* tour.cancel() and tour.complete(): Shepherd removes the steps from the page, emits the
\* event and then clears Shepherd.activeTour; an exception thrown by a listener leaves the
\* call before activeTour is cleared
TourCancel(t, throws) ==
    [SetTrue(t, HAS_CANCELLED_TOUR_KEY, throws) EXCEPT
        !.shownStep = "", !.cancelEmitted = TRUE, !.hasCancelledTour = TRUE,
        !.activeTour = IF throws THEN @ ELSE FALSE]

TourComplete(t, throws) ==
    [SetTrue(t, HAS_COMPLETED_TOUR_KEY, throws) EXCEPT
        !.shownStep = "", !.activeTour = IF throws THEN @ ELSE FALSE]

\* lines 402-413: the effect that advances the tour
TourEffect(t) ==
    LET queryTokens == scanSearchQuery(t.queryState)
        ran(branch, show) == [branch |-> branch, currentStep |-> t.currentStep, query |-> t.queryState, show |-> show]
    IN IF ~t.activeTour THEN t
       ELSE IF shouldTriggerSuggestions(t.currentStep, queryTokens)
       THEN [t EXCEPT !.lastEffect = ran("trigger", "")]
       ELSE IF shouldAdvanceLangOrRepoStep(t.currentStep, queryTokens)
       THEN [HookShow(t, "add-query-term") EXCEPT !.lastEffect = ran("advance", "add-query-term")]
       ELSE IF shouldShowSubmitSearch(t.currentStep, queryTokens)
       THEN [HookShow(t, "submit-search") EXCEPT !.lastEffect = ran("submit", "submit-search")]
       ELSE [t EXCEPT !.lastEffect = ran("none", "")]

\* the dependencies of the effect
EffectDeps(t) == <<t.suggestions, t.queryState, t.currentStep>>

\* React renders after a handler: the effect runs when one of its dependencies has changed
\* since the last render, and again when it has changed currentStep
RECURSIVE Rendered(_, _)
Rendered(before, t) ==
    IF EffectDeps(before) = EffectDeps(t) THEN t ELSE Rendered(t, TourEffect(t))

\* onFocus
onFocus(t) ==
    IF shouldShowTour(t) /\ ~t.activeTour THEN TourShow(t, "start-tour") ELSE t

\* onCompletionItemSelected
onCompletionItemSelected(t) ==
    IF shouldAdvanceLangOrRepoStep(t.currentStep, scanSearchQuery(t.queryState))
    THEN HookShow(t, "add-query-term")
    ELSE t

\* the handlers of the two buttons of the first step
languageButtonHandler(t) == HookShow([t EXCEPT !.queryState = "lang:"], "filter-lang")

repositoryButtonHandler(t) == HookShow([t EXCEPT !.queryState = "repo:"], "filter-repository")

TourBecomes(t) ==
    /\ queryState' = t.queryState
    /\ tourStorage' = t.tourStorage
    /\ hasCancelledTour' = t.hasCancelledTour
    /\ currentStep' = t.currentStep
    /\ suggestions' = t.suggestions
    /\ activeTour' = t.activeTour
    /\ shownStep' = t.shownStep
    /\ cancelEmitted' = t.cancelEmitted
    /\ setItemThrew' = t.setItemThrew
    /\ lastShow' = t.lastShow
    /\ lastEffect' = t.lastEffect
    /\ UNCHANGED <<showOnboardingTour, daysActiveCount, patchVars, hookVars, buttonVars>>

\* the component that uses the hook is mounted
InitTour ==
    /\ PatchDataUnused
    /\ HookUnused
    /\ ButtonUnused
    /\ \E show \in BOOLEAN, days \in DaysActive, storage \in TourStorages :
          /\ showOnboardingTour = show
          /\ daysActiveCount = days
          /\ queryState = Mounted(storage).queryState
          /\ tourStorage = storage
          /\ hasCancelledTour = Mounted(storage).hasCancelledTour
          /\ currentStep = ""
          /\ suggestions = FALSE
          /\ activeTour = FALSE
          /\ shownStep = ""
          /\ cancelEmitted = FALSE
          /\ setItemThrew = FALSE
          /\ lastShow = NoShow
          /\ lastEffect = NoEffect

\* the query input is focused
Focus ==
    \E t \in {onFocus(Tour)} : TourBecomes(Rendered(Tour, t))

\* "Search a language" of the first step is clicked
LanguageButtonClicked ==
    /\ shownStep = "start-tour"
    /\ TourBecomes(Rendered(Tour, languageButtonHandler(Tour)))

\* "Search a repository" of the first step is clicked
RepositoryButtonClicked ==
    /\ shownStep = "start-tour"
    /\ TourBecomes(Rendered(Tour, repositoryButtonHandler(Tour)))

\* the user edits the query
QueryChanged ==
    \E query \in Queries \ {queryState} :
        TourBecomes(Rendered(Tour, [Tour EXCEPT !.queryState = query]))

\* the user picks an item of the suggestions widget
CompletionItemSelected ==
    \E t \in {onCompletionItemSelected(Tour)} : TourBecomes(Rendered(Tour, t))

\* the query input hands over the handle of its suggestions widget
SuggestionsInitialized ==
    /\ ~suggestions
    /\ TourBecomes(Rendered(Tour, [Tour EXCEPT !.suggestions = TRUE]))

\* the close icon of the displayed step is clicked
CloseClicked ==
    /\ shownStep # ""
    /\ \E throws \in BOOLEAN : TourBecomes(Rendered(Tour, TourCancel(Tour, throws)))

\* the search button is clicked while the last step is displayed (advanceOn)
SearchButtonClicked ==
    /\ shownStep = "submit-search"
    /\ \E throws \in BOOLEAN : TourBecomes(Rendered(Tour, TourComplete(Tour, throws)))

\* the page is left and loaded again: the cleanup of lines 380-385 completes the old tour
\* after its listeners are removed, and the new component reads the storage
TourRemount ==
    \E t \in {Mounted(tourStorage)} :
        TourBecomes([t EXCEPT !.cancelEmitted = cancelEmitted, !.setItemThrew = setItemThrew])

NextTour ==
    \/ Focus
    \/ LanguageButtonClicked
    \/ RepositoryButtonClicked
    \/ QueryChanged
    \/ CompletionItemSelected
    \/ SuggestionsInitialized
    \/ CloseClicked
    \/ SearchButtonClicked
    \/ TourRemount

SpecTour == InitTour /\ [][NextTour]_vars

(* ------------------------------------------------------------------ *)
(* C26, C27                                                            *)
(* ------------------------------------------------------------------ *)

\* C26: once the tour has emitted 'cancel', "true" is stored under HAS_CANCELLED_TOUR_KEY,
\* the tour is not active and no step of it is displayed, whatever focus events, query
\* changes and selections of completion items follow.  (Stated for the runs in which
\* localStorage.setItem does not throw.)
C26_CancelledTourStaysHidden ==
    (cancelEmitted /\ ~setItemThrew) =>
        /\ getItem(tourStorage, HAS_CANCELLED_TOUR_KEY) = <<"true">>
        /\ ~activeTour
        /\ shownStep = ""

\* the shape of a query that advances the step currentTourStep: the matching filter with a
\* value, for lang a literal of LANGUAGES, and one whitespace token
AdvancingQuery(currentTourStep, query) ==
    \E text \in {"foo", "go", "zzz", "a"} :
        \/ /\ currentTourStep = "filter-repository"
           /\ \E value \in {Literal(text), Quoted(text)} :
                 scanSearchQuery(query) = <<FilterToken("repo", value), WhitespaceToken>>
        \/ /\ currentTourStep = "filter-lang"
           /\ text \in LANGUAGES
           /\ scanSearchQuery(query) = <<FilterToken("lang", Literal(text)), WhitespaceToken>>

\* a single repo or lang filter without a value, on the step of that filter
ValuelessFilter(currentTourStep, query) ==
    \/ currentTourStep = "filter-repository" /\ scanSearchQuery(query) = <<FilterToken("repo", <<>>)>>
    \/ currentTourStep = "filter-lang" /\ scanSearchQuery(query) = <<FilterToken("lang", <<>>)>>

\* C27: the hook has shown step add-query-term only with currentStep filter-repository or
\* filter-lang and a query that is the matching filter with a value (for lang a literal of
\* LANGUAGES) followed by one whitespace token; it has shown submit-search only with
\* currentStep add-query-term and a query with a pattern token; and a run of the effect
\* with a single repo or lang filter without a value on the matching step has taken the
\* branch that triggers the suggestions and has shown no step.
C27_StepsFollowQuery ==
    /\ lastShow.step = "add-query-term" =>
          /\ lastShow.currentStep \in {"filter-repository", "filter-lang"}
          /\ AdvancingQuery(lastShow.currentStep, lastShow.query)
    /\ lastShow.step = "submit-search" =>
          /\ lastShow.currentStep = "add-query-term"
          /\ \E x \in 1..Len(scanSearchQuery(lastShow.query)) :
                scanSearchQuery(lastShow.query)[x] = PatternToken
    /\ (lastEffect.branch # "" /\ ValuelessFilter(lastEffect.currentStep, lastEffect.query)) =>
          lastEffect.branch = "trigger" /\ lastEffect.show = ""
    /\ ValuelessFilter(currentStep, queryState) => shownStep \notin {"add-query-term", "submit-search"}

\* the tour has been advanced through add-query-term to submit-search by the hook
C27_Witness ==
    /\ shownStep = "submit-search"
    /\ lastShow.step = "submit-search"
    /\ lastShow.currentStep = "add-query-term"

====
